---- MODULE Spec2Model ----
(***************************************************************************)
(* A model of the resource-attachment control plane of a Utility VM:       *)
(*   - UtilityVM.Share            (internal/uvm/share.go)                   *)
(*   - computeAgent.AddNIC/DeleteNIC, setupAndServe, trapClosedConnErr      *)
(*                                (internal/uvm/computeagent.go)            *)
(* and of two functions of its collaborators:                               *)
(*   - updateSandboxMounts        (package hcsv2)                           *)
(*   - layerPathsToDescriptors    (package wclayer)                         *)
(* Callees whose bodies live in other files of the repository (AddVSMB,    *)
(* GetVSMBUvmPath, GuestRequest, AddPlan9, Release, GetHNSEndpointByName,   *)
(* AddEndpointToNSWithID, RemoveEndpointFromNS, ListenPipe, NewServer,      *)
(* Serve, getSandboxMountsDir, NameToGuid) are modelled from the design     *)
(* document; every such definition says so in its comment.                  *)
(***************************************************************************)
EXTENDS Integers, Sequences, FiniteSets, TLC

VARIABLES
    uvmOS,          \* uvm.OS(): "windows" or "linux"
    vsmbShares,     \* host-side VSMB share objects currently allocated
    plan9Shares,    \* host-side Plan9 share objects currently allocated
    guestMappedDirs,\* MappedDirectory settings the guest has accepted
    guestPlan9,     \* Plan9 mounts the guest has registered
    nextShare,      \* number of share objects allocated so far
    call,           \* the Share call in flight: position, arguments, locals
    attachments,    \* the UVM's NicAttachment records
    guestNics,      \* NICs the guest has been told about
    last,           \* the most recent AddNIC/DeleteNIC call, its result, and
                    \* what it followed
    pipes,          \* pipe addresses with an open listener
    procAlive,      \* the hosting process has not been terminated
    svc,            \* per service instance: position of setupAndServe, its
                    \* listener, its return value, its serve task
    sandbox,        \* the updateSandboxMounts call in flight: the mount
                    \* sources of the spec, as given and as they are now
    guestDirs,      \* directories that exist in the guest's file system
    layerCall       \* the layerPathsToDescriptors call in flight

shareVars == <<uvmOS, vsmbShares, plan9Shares, guestMappedDirs, guestPlan9, nextShare, call>>

nicVars == <<attachments, guestNics, last>>

serveVars == <<pipes, procAlive, svc>>

mountVars == <<sandbox, guestDirs>>

layerVars == <<layerCall>>

vars == <<shareVars, nicVars, serveVars, mountVars, layerVars>>

\* ------------------------------------------------------------------ bounds
\* How many share objects the UVM allocates in one behaviour.
MaxShares == 2
\* How many compute agent service instances are set up in one behaviour.
MaxServers == 2
\* How many mounts a container spec has.
MaxMounts == 2
\* How many parent layers a container has.
MaxLayers == 3

\* ------------------------------------------------------------------ values
NoErr == "nil"
NoShare == <<>>
ShareId(n) == <<"share", n>>
SEP == "/"

\* --------------------------------------------------------- host file system
\* The host directory tree the calls run against:
\*     /            root
\*     /d           directory, also the working directory
\*     /d/f  /d/g   regular files (siblings)
\*     /d/s         directory
Nodes == {"root", "d", "f", "g", "s"}
NoNode == "absent"
NodeParent == [n \in Nodes |->
                 CASE n = "root" -> NoNode
                   [] n = "d" -> "root"
                   [] OTHER -> "d"]
NodeIsDir == [n \in Nodes |-> n \in {"root", "d", "s"}]
Cwd == "d"

\* One step of path resolution: the child of directory `node` called `name`.
Child(node, name) ==
    IF node \in Nodes /\ NodeIsDir[node] /\ name \in Nodes \ {"root"}
       /\ NodeParent[name] = node
    THEN name ELSE NoNode

RECURSIVE Walk(_, _)
Walk(node, rest) ==
    IF node = NoNode THEN NoNode
    ELSE IF rest = <<>> THEN node
    ELSE IF Head(rest) = SEP
         THEN (IF NodeIsDir[node] THEN Walk(node, Tail(rest)) ELSE NoNode)
         ELSE Walk(Child(node, Head(rest)), Tail(rest))

\* The node a path names: absolute paths start at the root, others at Cwd.
Resolve(path) ==
    IF path # <<>> /\ path[1] = SEP THEN Walk("root", Tail(path))
    ELSE Walk(Cwd, path)

\* The paths callers pass as reqHostPath.
HostPaths == {
    <<SEP, "d">>,                 \* a directory
    <<SEP, "d", SEP>>,            \* the same directory, trailing separator
    <<SEP, "d", SEP, "f">>,       \* a regular file
    <<SEP, "d", SEP, "g">>,       \* its sibling
    <<SEP, "d", SEP, "s">>,       \* a sub-directory
    <<"f">>,                      \* a file named relative to Cwd
    <<SEP, "d", SEP, "f", SEP>>,  \* a file with a trailing separator: stat fails
    <<SEP, "x">> }                \* no such file: stat fails

UVMPaths == { <<SEP, "mnt">> }

\* os.Stat(reqHostPath): NoNode stands for the error.
Stat(path) == Resolve(path)

\* filepath.Split: split immediately after the final separator.
RECURSIVE LastSep(_, _)
LastSep(path, i) ==
    IF i = 0 THEN 0
    ELSE IF path[i] = SEP THEN i
    ELSE LastSep(path, i - 1)

Split(path) ==
    LET i == LastSep(path, Len(path))
    IN  <<SubSeq(path, 1, i), SubSeq(path, i + 1, Len(path))>>

\* ------------------------------------------------------------ Share: callees
\* uvm.DefaultVSMBOptions(readOnly) -- modelled from the design document:
\* "access mode derived from readOnly".
DefaultVSMBOptions(readOnly) == [ReadOnly |-> readOnly]

\* The share object uvm.AddVSMB allocates -- modelled from the design
\* document: "allocate a host-side share object for hostPath".
VSMBShare(id, hostPath, options) ==
    [id |-> id, hostPath |-> hostPath, readOnly |-> options.ReadOnly]

\* uvm.GetVSMBUvmPath(hostPath, readOnly) -- modelled from the design
\* document: "the guest-visible representation of that share".
VSMBUvmPath(hostPath, readOnly) ==
    <<"VSMB", IF readOnly THEN "ro" ELSE "rw">> \o hostPath

\* The share object uvm.AddPlan9 allocates and the mount it registers with
\* the guest -- modelled from the design document: "registering the mapping
\* with the guest for this mechanism is implicit in share allocation".
Plan9Share(id, hostPath, uvmPath, readOnly, restrictAccess, allowedNames) ==
    [id |-> id, hostPath |-> hostPath, uvmPath |-> uvmPath,
     readOnly |-> readOnly, restrictAccess |-> restrictAccess,
     allowedNames |-> allowedNames]

Plan9Mount(share) ==
    [share |-> share.id, hostPath |-> share.hostPath, uvmPath |-> share.uvmPath,
     readOnly |-> share.readOnly, restrictAccess |-> share.restrictAccess,
     allowedNames |-> share.allowedNames]

\* How a uvm.GuestRequest can end: acknowledged, failed by the guest, or
\* abandoned because the caller's context was cancelled while it was pending.
GuestOutcomes == {"ok", "ErrGuest", "ErrCancelled"}

\* -------------------------------------------------------------- Share: code
IdleCall ==
    [pc |-> "idle", reqHostPath |-> <<>>, reqUVMPath |-> <<>>, readOnly |-> FALSE,
     err |-> NoErr,        \* the named result
     errBlock |-> NoErr,   \* the err declared by := inside the OS branch
     share |-> NoShare,    \* vsmbShare / plan9Share
     deferred |-> FALSE,   \* the deferred closure is registered
     sharePath |-> <<>>,
     releases |-> 0,       \* Release calls made by this call
     guestReqs |-> 0,      \* GuestRequests sent by this call
     outcome |-> "none"]   \* how the GuestRequest ended

\* Faulty variant of MappedDirectory: the readOnly argument is not forwarded.
MappedDirectoryReadWrite(c) ==
    [HostPath |-> c.sharePath, ContainerPath |-> c.reqUVMPath, ReadOnly |-> FALSE]

\* The MappedDirectory settings of the guest request.
MappedDirectory(c) ==
    [HostPath |-> c.sharePath, ContainerPath |-> c.reqUVMPath, ReadOnly |-> c.readOnly]

\* Faulty variant of Plan9Params: restrictAccess is left unset for a single file.
Plan9ParamsUnrestricted(reqHostPath, isDir) ==
    IF ~isDir
    THEN [hostPath |-> Split(reqHostPath)[1], restrictAccess |-> FALSE,
          allowedNames |-> <<Split(reqHostPath)[2]>>]
    ELSE [hostPath |-> reqHostPath, restrictAccess |-> FALSE, allowedNames |-> <<>>]

\* hostPath, restrictAccess and allowedNames as computed before AddPlan9.
Plan9Params(reqHostPath, isDir) ==
    IF ~isDir
    THEN [hostPath |-> Split(reqHostPath)[1], restrictAccess |-> TRUE,
          allowedNames |-> <<Split(reqHostPath)[2]>>]
    ELSE [hostPath |-> reqHostPath, restrictAccess |-> FALSE, allowedNames |-> <<>>]

\* Faulty variant of DeferredRelease: the closure never releases.
DeferredReleaseNever(c) == FALSE

\* Faulty variant of DeferredRelease: the closure releases without looking
\* at err.
DeferredReleaseAlways(c) == c.deferred

\* The condition of the deferred closure: it reads the err that := declared
\* in the enclosing block, which the later `if err := ...` does not assign.
DeferredRelease(c) == c.deferred /\ c.errBlock # NoErr

\* `return e`: the named result is set, the deferred closure runs next.
Return(c, e) == [c EXCEPT !.pc = "return", !.err = e]

\* Faulty variant of OSBranch: the Windows mechanism is used for every guest.
OSBranchAlwaysWindows(os) == "AddVSMB"

\* `if uvm.OS() == "windows"`: where Share goes first.
OSBranch(os) == IF os = "windows" THEN "AddVSMB" ELSE "Stat"

ShareCall(hp, up, ro) ==
    /\ call.pc = "idle"
    /\ nextShare < MaxShares
    /\ call' = [IdleCall EXCEPT !.pc = OSBranch(uvmOS),
                                !.reqHostPath = hp, !.reqUVMPath = up, !.readOnly = ro]
    /\ UNCHANGED <<nicVars, serveVars, mountVars, layerVars, uvmOS, vsmbShares, plan9Shares, guestMappedDirs, guestPlan9, nextShare>>

ShareAddVSMB(ok) ==
    /\ call.pc = "AddVSMB"
    /\ IF ok
       THEN /\ vsmbShares' = vsmbShares \cup
                   {VSMBShare(ShareId(nextShare + 1), call.reqHostPath, DefaultVSMBOptions(call.readOnly))}
            /\ nextShare' = nextShare + 1
            /\ call' = [call EXCEPT !.pc = "GetVSMBUvmPath", !.share = ShareId(nextShare + 1),
                                    !.deferred = TRUE]
       ELSE /\ call' = Return([call EXCEPT !.errBlock = "ErrAddVSMB"], "ErrAddVSMB")
            /\ UNCHANGED <<vsmbShares, nextShare>>
    /\ UNCHANGED <<nicVars, serveVars, mountVars, layerVars, uvmOS, plan9Shares, guestMappedDirs, guestPlan9>>

ShareGetVSMBUvmPath(ok) ==
    /\ call.pc = "GetVSMBUvmPath"
    /\ call' = IF ok
               THEN [call EXCEPT !.pc = "GuestRequest",
                                 !.sharePath = VSMBUvmPath(call.reqHostPath, call.readOnly)]
               ELSE Return([call EXCEPT !.errBlock = "ErrGetVSMBUvmPath"], "ErrGetVSMBUvmPath")
    /\ UNCHANGED <<nicVars, serveVars, mountVars, layerVars, uvmOS, vsmbShares, plan9Shares, guestMappedDirs, guestPlan9, nextShare>>

\* Faulty variant of ShareGuestRequest: a request the guest failed is sent
\* once more before the error is returned.
ShareGuestRequestResend(outcome) ==
    /\ call.pc = "GuestRequest"
    /\ LET c == [call EXCEPT !.guestReqs = @ + 1, !.outcome = outcome]
       IN  IF outcome = "ok"
           THEN /\ guestMappedDirs' = guestMappedDirs \cup {MappedDirectory(call)}
                /\ call' = Return(c, NoErr)
           ELSE /\ call' = IF call.guestReqs = 0 THEN c ELSE Return(c, outcome)
                /\ UNCHANGED guestMappedDirs
    /\ UNCHANGED <<nicVars, serveVars, mountVars, layerVars, uvmOS, vsmbShares, plan9Shares, guestPlan9, nextShare>>

ShareGuestRequest(outcome) ==
    /\ call.pc = "GuestRequest"
    /\ LET c == [call EXCEPT !.guestReqs = @ + 1, !.outcome = outcome]
       IN  IF outcome = "ok"
           THEN /\ guestMappedDirs' = guestMappedDirs \cup {MappedDirectory(call)}
                /\ call' = Return(c, NoErr)
           ELSE /\ call' = Return(c, outcome)
                /\ UNCHANGED guestMappedDirs
    /\ UNCHANGED <<nicVars, serveVars, mountVars, layerVars, uvmOS, vsmbShares, plan9Shares, guestPlan9, nextShare>>

ShareStat ==
    /\ call.pc = "Stat"
    /\ call' = IF Stat(call.reqHostPath) = NoNode
               THEN Return([call EXCEPT !.errBlock = "ErrStat"], "ErrCouldNotOpen")
               ELSE [call EXCEPT !.pc = "AddPlan9"]
    /\ UNCHANGED <<nicVars, serveVars, mountVars, layerVars, uvmOS, vsmbShares, plan9Shares, guestMappedDirs, guestPlan9, nextShare>>

ShareAddPlan9(ok) ==
    /\ call.pc = "AddPlan9"
    /\ LET p == Plan9Params(call.reqHostPath, NodeIsDir[Stat(call.reqHostPath)])
           s == Plan9Share(ShareId(nextShare + 1), p.hostPath, call.reqUVMPath, call.readOnly,
                           p.restrictAccess, p.allowedNames)
       IN  IF ok
           THEN /\ plan9Shares' = plan9Shares \cup {s}
                /\ guestPlan9' = guestPlan9 \cup {Plan9Mount(s)}
                /\ nextShare' = nextShare + 1
                /\ call' = Return([call EXCEPT !.share = s.id, !.deferred = TRUE], NoErr)
           ELSE /\ call' = Return([call EXCEPT !.errBlock = "ErrAddPlan9"], "ErrAddPlan9")
                /\ UNCHANGED <<plan9Shares, guestPlan9, nextShare>>
    /\ UNCHANGED <<nicVars, serveVars, mountVars, layerVars, uvmOS, vsmbShares, guestMappedDirs>>

\* The deferred closure, then the return to the caller. Release -- modelled
\* from the design document -- frees the share object.
ShareReturn ==
    /\ call.pc = "return"
    /\ IF DeferredRelease(call)
       THEN /\ vsmbShares' = {s \in vsmbShares : s.id # call.share}
            /\ plan9Shares' = {s \in plan9Shares : s.id # call.share}
            /\ guestPlan9' = {m \in guestPlan9 : m.share # call.share}
            /\ call' = [call EXCEPT !.pc = "done", !.releases = @ + 1]
       ELSE /\ call' = [call EXCEPT !.pc = "done"]
            /\ UNCHANGED <<vsmbShares, plan9Shares, guestPlan9>>
    /\ UNCHANGED <<nicVars, serveVars, mountVars, layerVars, uvmOS, guestMappedDirs, nextShare>>

\* The caller has the result; the next call may start.
ShareDone ==
    /\ call.pc = "done"
    /\ call' = IdleCall
    /\ UNCHANGED <<nicVars, serveVars, mountVars, layerVars, uvmOS, vsmbShares, plan9Shares, guestMappedDirs, guestPlan9, nextShare>>

\* ------------------------------------------------- compute agent: callees
\* The HNS endpoints that exist, by name -- hns.GetHNSEndpointByName is
\* modelled from the design document: "resolves endpointName to a
\* NetworkEndpoint (fails with EndpointNotFound if absent)"; an endpoint has
\* an identity and an owning namespace.
HNSEndpoints ==
    [n \in {"eth-test", "eth-2"} |->
        CASE n = "eth-test" -> [Id |-> "ep-1", Namespace |-> [ID |-> "ns-1"]]
          [] n = "eth-2"    -> [Id |-> "ep-2", Namespace |-> [ID |-> "ns-1"]]]

\* Errors of the compute agent calls are chains of messages; nil is empty.
NilErr == <<>>

NilEndpoint == [Id |-> "", Namespace |-> [ID |-> ""]]

GetHNSEndpointByName(name) ==
    IF name \in DOMAIN HNSEndpoints
    THEN [endpoint |-> HNSEndpoints[name], err |-> NilErr]
    ELSE [endpoint |-> NilEndpoint, err |-> <<"EndpointNotFound">>]

NicAttachment(nsID, nicID, endpoint) ==
    [nicID |-> nicID, endpointID |-> endpoint.Id, namespaceID |-> nsID]

\* uvm.AddEndpointToNSWithID(nsID, nicID, endpoint) -- modelled from the
\* design document: a duplicate (namespaceID, nicID) fails, or is a no-op,
\* without touching the guest; otherwise the guest is asked, and a record
\* is made only when it acknowledges.  `guestOK` is the guest's answer and
\* `dupFails` the design choice for a duplicate.  The result is the error
\* and the new attachment and guest sets.
AddEndpointToNSWithID(nsID, nicID, endpoint, guestOK, dupFails) ==
    IF \E a \in attachments : a.namespaceID = nsID /\ a.nicID = nicID
    THEN [err |-> IF dupFails THEN <<"ErrNicExists">> ELSE NilErr,
          attachments |-> attachments, guestNics |-> guestNics, fault |-> FALSE]
    ELSE IF guestOK
    THEN [err |-> NilErr,
          attachments |-> attachments \cup {NicAttachment(nsID, nicID, endpoint)},
          guestNics |-> guestNics \cup {NicAttachment(nsID, nicID, endpoint)},
          fault |-> FALSE]
    ELSE [err |-> <<"ErrGuest">>, attachments |-> attachments, guestNics |-> guestNics,
          fault |-> TRUE]

\* uvm.RemoveEndpointFromNS(nsID, endpoint) -- modelled from the design
\* document: "removes the matching NicAttachment record regardless of
\* whether the record exists"; with nothing attached there is nothing to
\* ask the guest and no error.
RemoveEndpointFromNS(nsID, endpoint, guestOK) ==
    LET matching == {a \in attachments :
                        a.namespaceID = nsID /\ a.endpointID = endpoint.Id}
    IN  IF matching = {}
        THEN [err |-> NilErr, attachments |-> attachments, guestNics |-> guestNics,
              fault |-> FALSE]
        ELSE IF guestOK
        THEN [err |-> NilErr, attachments |-> attachments \ matching,
              guestNics |-> guestNics \ matching, fault |-> FALSE]
        ELSE [err |-> <<"ErrGuest">>, attachments |-> attachments, guestNics |-> guestNics,
              fault |-> TRUE]

\* ---------------------------------------------------- compute agent: code
ContainerIDs == {"c1", ""}
EndpointNames == {"eth-test", "eth-2", "eth-x", ""}
NicIDs == {"nic-1", "nic-2", ""}

Requests == [ContainerID : ContainerIDs, EndpointName : EndpointNames, NicID : NicIDs]

\* What is remembered of the call before the most recent one.
NoPrev == [op |-> "none", sameReq |-> FALSE, err |-> NilErr, fault |-> FALSE,
           fromEmpty |-> FALSE]

NoCall == [op |-> "none", req |-> [ContainerID |-> "", EndpointName |-> "", NicID |-> ""],
           err |-> NilErr,
           delegated |-> 0,    \* calls of the guest-facing attach/detach operation
           fault |-> FALSE,    \* the guest failed the operation
           before |-> {},      \* the attachment set when the call began
           guestBefore |-> {}, \* the guest's NICs when the call began
           prev |-> NoPrev]

\* Faulty variant of LookupFailed: the error of the lookup is not checked.
LookupNeverFailed(r) == FALSE

\* `if err != nil` after the endpoint lookup.
LookupFailed(r) == r.err # NilErr

\* errors.Wrapf(err, "failed to get endpoint with name %q", req.EndpointName)
Wrapf(err, name) == <<"failed to get endpoint with name", name>> \o err

\* Faulty variant of AddNICArgs: the container ID is passed where the NIC ID belongs.
AddNICArgsContainerAsNic(req, endpoint) ==
    [nsID |-> endpoint.Namespace.ID, nicID |-> req.ContainerID, endpoint |-> endpoint]

\* The arguments AddNIC hands to AddEndpointToNSWithID.
AddNICArgs(req, endpoint) ==
    [nsID |-> endpoint.Namespace.ID, nicID |-> req.NicID, endpoint |-> endpoint]

\* Faulty variant of DeleteNICArgs: the NIC ID is passed where the namespace ID belongs.
DeleteNICArgsNicAsNamespace(req, endpoint) ==
    [nsID |-> req.NicID, endpoint |-> endpoint]

\* The arguments DeleteNIC hands to RemoveEndpointFromNS.
DeleteNICArgs(req, endpoint) ==
    [nsID |-> endpoint.Namespace.ID, endpoint |-> endpoint]

\* What a call leaves behind: its record, and the UVM and guest state.
Finish(op, req, err, delegated, fault, att, nics) ==
    /\ last' = [op |-> op, req |-> req, err |-> err, delegated |-> delegated,
                fault |-> fault, before |-> attachments, guestBefore |-> guestNics,
                prev |-> [op |-> last.op, sameReq |-> (last.req = req),
                          err |-> last.err, fault |-> last.fault,
                          fromEmpty |-> (last.before = {})]]
    /\ attachments' = att
    /\ guestNics' = nics

AddNIC(req, guestOK, dupFails) ==
    LET r == GetHNSEndpointByName(req.EndpointName)
    IN  IF LookupFailed(r)
        THEN Finish("AddNIC", req, Wrapf(r.err, req.EndpointName), 0, FALSE,
                    attachments, guestNics)
        ELSE LET a == AddNICArgs(req, r.endpoint)
                 d == AddEndpointToNSWithID(a.nsID, a.nicID, a.endpoint, guestOK, dupFails)
             IN  Finish("AddNIC", req, d.err, 1, d.fault, d.attachments, d.guestNics)

DeleteNIC(req, guestOK) ==
    LET r == GetHNSEndpointByName(req.EndpointName)
    IN  IF LookupFailed(r)
        THEN Finish("DeleteNIC", req, Wrapf(r.err, req.EndpointName), 0, FALSE,
                    attachments, guestNics)
        ELSE LET a == DeleteNICArgs(req, r.endpoint)
                 d == RemoveEndpointFromNS(a.nsID, a.endpoint, guestOK)
             IN  Finish("DeleteNIC", req, d.err, 1, d.fault, d.attachments, d.guestNics)

\* ------------------------------------------------------ setupAndServe: code
\* Error texts are sequences of characters, so that strings.Contains is a
\* search and not a comparison.
ClosedConnText == <<"u", "s", "e", " ", "o", "f", " ", "c", "l", "o", "s", "e", "d", " ", "n", "e", "t", "w", "o", "r", "k", " ", "c", "o", "n", "n", "e", "c", "t", "i", "o", "n">>

RECURSIVE ContainsAt(_, _, _)
ContainsAt(s, sub, i) ==
    IF i + Len(sub) > Len(s) THEN FALSE
    ELSE IF SubSeq(s, i + 1, i + Len(sub)) = sub THEN TRUE
    ELSE ContainsAt(s, sub, i + 1)

\* strings.Contains(s, sub)
Contains(s, sub) == ContainsAt(s, sub, 0)

\* An error value of the serve loop: nil, or an error with its text.
NilError == [isNil |-> TRUE, text |-> <<>>]
Error(text) == [isNil |-> FALSE, text |-> text]

\* Faulty variant of trapClosedConnErr: the text is compared, not searched.
trapExactClosedConnErr(err) ==
    IF err.isNil \/ err.text = ClosedConnText THEN NilError ELSE err

trapClosedConnErr(err) ==
    IF err.isNil \/ Contains(err.text, ClosedConnText) THEN NilError ELSE err

\* Faulty variant of AfterListenPipe: the error of ListenPipe is not checked.
AfterListenPipeUnchecked(ok) == "NewServer"

\* Where setupAndServe goes after winio.ListenPipe: `if err != nil { return }`.
AfterListenPipe(ok) == IF ok THEN "NewServer" ELSE "returned"

\* Where setupAndServe goes after ttrpc.NewServer.
AfterNewServer(ok) == IF ok THEN "go" ELSE "returned"

\* --------------------------------------------------- setupAndServe: callees
\* What s.Serve can return -- modelled from the design document.  When the
\* listener has been closed under it the transport reports the "already
\* closed connection" condition (or nothing); otherwise an I/O error.
AcceptPrefix == <<"a", "c", "c", "e", "p", "t", ":", " ">>
ErrClosedPlain == Error(ClosedConnText)
ErrClosedAccept == Error(AcceptPrefix \o ClosedConnText)
ErrClosedEmbedded == Error(<<"m", "i", "s">> \o ClosedConnText \o <<"s">>)
ErrEOF == Error(<<"E", "O", "F">>)
ErrClosedPipe == Error(<<"c", "l", "o", "s", "e", "d", " ", "p", "i", "p", "e">>)
ErrTruncated == Error(SubSeq(ClosedConnText, 1, Len(ClosedConnText) - 1))
ErrEmptyText == Error(<<>>)

ServeResultsClosed == {NilError, ErrClosedPlain, ErrClosedAccept}
ServeResultsOpen == {ErrClosedEmbedded, ErrEOF, ErrClosedPipe, ErrTruncated, ErrEmptyText}

\* The addresses callers derive from VM identifiers (ComputeAgentAddrFmt).
ComputeAgentAddr(vmID) == <<"\\\\.\\pipe\\computeagent-", vmID>>
VMIDs == {"vm1", "vm2"}

Servers == 1..MaxServers

IdleSvc == [pc |-> "idle", addr |-> <<>>,
            listener |-> "none",   \* none, open, closed
            ret |-> "pending",     \* what setupAndServe returned
            task |-> "none",       \* none, serving, ended
            served |-> NilError,   \* what Serve returned
            fatal |-> FALSE]       \* log Fatal was called

setupAndServe(i, caAddr) ==
    /\ procAlive
    /\ svc[i].pc = "idle"
    /\ svc' = [svc EXCEPT ![i].pc = "ListenPipe", ![i].addr = caAddr]
    /\ UNCHANGED <<pipes, procAlive>>

\* winio.ListenPipe -- modelled from the design document: "failing with
\* BindFailure if the address is already in use or otherwise unavailable".
ServeListenPipe(i, available) ==
    /\ procAlive
    /\ svc[i].pc = "ListenPipe"
    /\ LET ok == available /\ svc[i].addr \notin pipes
       IN  /\ svc' = [svc EXCEPT
                 ![i].pc = AfterListenPipe(ok),
                 ![i].listener = IF ok THEN "open" ELSE "none",
                 ![i].ret = IF AfterListenPipe(ok) = "returned"
                            THEN "failed to listen"
                            ELSE "pending"]
           /\ pipes' = IF ok THEN pipes \cup {svc[i].addr} ELSE pipes
    /\ UNCHANGED procAlive

ServeNewServer(i, ok) ==
    /\ procAlive
    /\ svc[i].pc = "NewServer"
    /\ svc' = [svc EXCEPT
          ![i].pc = AfterNewServer(ok),
          ![i].ret = IF AfterNewServer(ok) = "returned" THEN "ErrNewServer" ELSE "pending"]
    /\ UNCHANGED <<pipes, procAlive>>

\* The go statement: the goroutine starts and calls s.Serve.
ServeGo(i) ==
    /\ procAlive
    /\ svc[i].pc = "go"
    /\ svc' = [svc EXCEPT ![i].pc = "return", ![i].task = "serving"]
    /\ UNCHANGED <<pipes, procAlive>>

\* Faulty variant of ServeReturnNil: the caller waits for the serve loop
\* and is handed its error.
ServeReturnAfterServe(i) ==
    /\ procAlive
    /\ svc[i].pc = "return"
    /\ svc[i].task = "ended"
    /\ svc' = [svc EXCEPT ![i].pc = "returned",
                          ![i].ret = IF svc[i].served.isNil THEN NoErr ELSE "serve failure"]
    /\ UNCHANGED <<pipes, procAlive>>

\* `return nil`, whatever the goroutine is doing.
ServeReturnNil(i) ==
    /\ procAlive
    /\ svc[i].pc = "return"
    /\ svc' = [svc EXCEPT ![i].pc = "returned", ![i].ret = NoErr]
    /\ UNCHANGED <<pipes, procAlive>>

\* The listener is closed from outside while the serve loop is active.
CloseListener(i) ==
    /\ procAlive
    /\ svc[i].task = "serving"
    /\ svc[i].listener = "open"
    /\ svc' = [svc EXCEPT ![i].listener = "closed"]
    /\ pipes' = pipes \ {svc[i].addr}
    /\ UNCHANGED procAlive

\* s.Serve returns e inside the goroutine.  A trapped error ends the
\* goroutine and the deferred l.Close() runs; any other error reaches
\* log Fatal, which terminates the process (the system then reclaims the
\* listener) without running the deferred call.
ServeEnds(i, e) ==
    /\ procAlive
    /\ svc[i].task = "serving"
    /\ e \in IF svc[i].listener = "closed" THEN ServeResultsClosed ELSE ServeResultsOpen
    /\ IF ~trapClosedConnErr(e).isNil
       THEN /\ procAlive' = FALSE
            /\ svc' = [svc EXCEPT ![i].served = e, ![i].fatal = TRUE,
                                  ![i].listener = "closed"]
       ELSE /\ procAlive' = procAlive
            /\ svc' = [svc EXCEPT ![i].served = e, ![i].task = "ended",
                                  ![i].listener = "closed"]
    /\ pipes' = pipes \ {svc[i].addr}

\* ------------------------------------------------- updateSandboxMounts
\* Strings of the guest are sequences of characters, so that a prefix test
\* on strings and a walk over path components are different things.
Slash == "/"

\* strings.HasPrefix
HasPrefix(s, prefix) ==
    /\ Len(s) >= Len(prefix)
    /\ SubSeq(s, 1, Len(prefix)) = prefix

\* strings.TrimPrefix
TrimPrefix(s, prefix) ==
    IF HasPrefix(s, prefix) THEN SubSeq(s, Len(prefix) + 1, Len(s)) ELSE s

\* The elements of a path between its separators (empty ones included).
RECURSIVE Elements(_)
Elements(s) ==
    IF \A k \in 1..Len(s) : s[k] # Slash
    THEN <<s>>
    ELSE LET k == CHOOSE j \in 1..Len(s) :
                     s[j] = Slash /\ \A h \in 1..(j - 1) : s[h] # Slash
         IN  <<SubSeq(s, 1, k - 1)>> \o Elements(SubSeq(s, k + 1, Len(s)))

\* filepath.Clean on the elements of a path: empty elements and "." are
\* dropped, ".." removes the element before it; at the root ".." is
\* dropped, in front of a relative path it is kept.
RECURSIVE CleanElements(_, _, _)
CleanElements(elems, acc, rooted) ==
    IF elems = <<>> THEN acc
    ELSE LET e == Head(elems)
             next == IF e = <<>> \/ e = <<".">> THEN acc
                     ELSE IF e = <<".", ".">>
                          THEN IF acc # <<>> /\ acc[Len(acc)] # <<".", ".">>
                               THEN SubSeq(acc, 1, Len(acc) - 1)
                               ELSE IF rooted THEN acc ELSE Append(acc, e)
                          ELSE Append(acc, e)
         IN  CleanElements(Tail(elems), next, rooted)

RECURSIVE JoinElements(_)
JoinElements(elems) ==
    IF elems = <<>> THEN <<>>
    ELSE IF Len(elems) = 1 THEN elems[1]
    ELSE elems[1] \o <<Slash>> \o JoinElements(Tail(elems))

\* filepath.Clean
Clean(path) ==
    LET rooted == path # <<>> /\ path[1] = Slash
        out == JoinElements(CleanElements(Elements(path), <<>>, rooted))
    IN  IF rooted THEN <<Slash>> \o out
        ELSE IF out = <<>> THEN <<".">> ELSE out

\* filepath.Join of two elements: empty elements are ignored, the result
\* is cleaned.
Join(a, b) ==
    IF a = <<>> /\ b = <<>> THEN <<>>
    ELSE IF a = <<>> THEN Clean(b)
    ELSE IF b = <<>> THEN Clean(a)
    ELSE Clean(a \o <<Slash>> \o b)

sandboxMountPrefix == <<"s", "a", "n", "d", "b", "o", "x", ":", "/", "/">>

\* getSandboxMountsDir -- its body is in another file of the package;
\* modelled from the design document as "a per-sandbox mounts directory":
\* an absolute, clean path that has the sandbox id as an element.
getSandboxMountsDir(sbid) == <<Slash, "c", Slash>> \o sbid \o <<Slash, "m">>

SandboxIDs == {<<"1">>}

\* Mount sources offered to the function.
MountSources ==
    { <<Slash, "h">>,
      <<"s", "a", "n", "d", "b", "o", "x", ":", "/", "a">>,
      sandboxMountPrefix,
      sandboxMountPrefix \o <<"a">>,
      sandboxMountPrefix \o <<"a", Slash, "b">>,
      sandboxMountPrefix \o <<"a", Slash, ".", ".", Slash, ".", ".", Slash, "m", Slash, "b">>,
      sandboxMountPrefix \o <<".", ".", Slash, "x">>,
      sandboxMountPrefix \o <<".", ".", Slash, "m", "x">>,
      sandboxMountPrefix \o <<".", ".", Slash, ".", ".", Slash, ".", ".", Slash, "e">> }

MountLists == UNION {[1..n -> MountSources] : n \in 0..MaxMounts}

NoMountErr == "nil"

\* os.MkdirAll, when it succeeds: the directory and every missing parent
\* exist afterwards (the path is absolute and clean).
MkdirAll(path, dirs) ==
    LET elems == Elements(path)
    IN  dirs \cup {<<Slash>> \o JoinElements(SubSeq(elems, 2, k)) : k \in 2..Len(elems)}

\* The body of the loop for one mount: the source it leaves in the spec,
\* the error it returns (if any) and the directories that exist afterwards.
MountBody(sbid, source, dirs, mkdirOK) ==
    IF HasPrefix(source, sandboxMountPrefix)
    THEN LET mountsDir == getSandboxMountsDir(sbid)
             subPath == TrimPrefix(source, sandboxMountPrefix)
             sandboxSource == Join(mountsDir, subPath)
         IN  IF ~HasPrefix(sandboxSource, mountsDir)
             THEN [source |-> source, err |-> "not within sandbox's mounts dir", dirs |-> dirs]
             ELSE IF sandboxSource \notin dirs /\ ~mkdirOK
                  THEN [source |-> sandboxSource, err |-> "ErrMkdirAll", dirs |-> dirs]
                  ELSE [source |-> sandboxSource, err |-> NoMountErr,
                        dirs |-> IF sandboxSource \in dirs THEN dirs
                                 ELSE MkdirAll(sandboxSource, dirs)]
    ELSE [source |-> source, err |-> NoMountErr, dirs |-> dirs]

IdleSandbox ==
    [pc |-> "idle", sbid |-> <<>>,
     given |-> <<>>,       \* the mount sources the caller passed
     mounts |-> <<>>,      \* spec.Mounts[k].Source now
     i |-> 0,              \* the mount the loop is at
     err |-> NoMountErr]   \* the result

updateSandboxMounts(sbid, mounts) ==
    /\ sandbox.pc = "idle"
    /\ sandbox' = [IdleSandbox EXCEPT !.pc = "range", !.sbid = sbid,
                                      !.given = mounts, !.mounts = mounts, !.i = 1]
    /\ UNCHANGED <<shareVars, nicVars, serveVars, layerVars, guestDirs>>

\* One iteration of `for i, m := range spec.Mounts`.
MountsIteration(mkdirOK) ==
    /\ sandbox.pc = "range"
    /\ sandbox.i <= Len(sandbox.mounts)
    /\ LET r == MountBody(sandbox.sbid, sandbox.mounts[sandbox.i], guestDirs, mkdirOK)
       IN  /\ sandbox' = [sandbox EXCEPT
                 !.mounts[sandbox.i] = r.source,
                 !.err = r.err,
                 !.pc = IF r.err = NoMountErr THEN "range" ELSE "returned",
                 !.i = IF r.err = NoMountErr THEN @ + 1 ELSE @]
           /\ guestDirs' = r.dirs
    /\ UNCHANGED <<shareVars, nicVars, serveVars, layerVars>>

\* `return nil` after the loop.
MountsReturnNil ==
    /\ sandbox.pc = "range"
    /\ sandbox.i > Len(sandbox.mounts)
    /\ sandbox' = [sandbox EXCEPT !.pc = "returned"]
    /\ UNCHANGED <<shareVars, nicVars, serveVars, layerVars, guestDirs>>

\* The caller has the result; the next spec may be processed.
MountsDone ==
    /\ sandbox.pc = "returned"
    /\ sandbox' = IdleSandbox
    /\ UNCHANGED <<shareVars, nicVars, serveVars, layerVars, guestDirs>>

InitMountVars ==
    /\ sandbox = IdleSandbox
    /\ guestDirs = {}

\* --------------------------------------------- layerPathsToDescriptors
\* Layer paths are sequences of path tokens, as host paths are; NUL stands
\* for a token that has a NUL character in it.
NUL == "\\0"

LayerPaths ==
    { <<"C:", SEP, "l", SEP, "a">>,
      <<"C:", SEP, "k", SEP, "a">>,
      <<"C:", SEP, "l", SEP, "b">>,
      <<"C:", SEP, "l", SEP>>,
      <<"C:", SEP, "l", SEP, NUL>> }

LayerPathLists == UNION {[1..n -> LayerPaths] : n \in 0..MaxLayers}

\* NameToGuid -- its body is in another file of the package; modelled from
\* the design document: the identity is "derived deterministically from
\* the path's final path component". Whether the conversion succeeds is
\* decided by the platform.
NameToGuid(name, ok) ==
    IF ok THEN [g |-> <<"guid-of", name>>, err |-> "nil"]
    ELSE [g |-> <<>>, err |-> "ErrNameToGuid"]

\* syscall.UTF16PtrFromString: the UTF-16 text of the path, or EINVAL if
\* the string has a NUL in it.
UTF16PtrFromString(path) ==
    IF \E k \in 1..Len(path) : path[k] = NUL
    THEN [p |-> <<>>, err |-> "EINVAL"]
    ELSE [p |-> <<"utf16">> \o path, err |-> "nil"]

\* Faulty variant of LayerDescriptor: the identity is taken from the whole
\* path.
LayerDescriptorOfWholePath(path, guidOK) ==
    LET g == NameToGuid(path, guidOK)
        p == UTF16PtrFromString(path)
    IN  IF g.err # "nil" THEN [err |-> g.err, layer |-> <<>>]
        ELSE IF p.err # "nil" THEN [err |-> p.err, layer |-> <<>>]
        ELSE [err |-> "nil",
              layer |-> <<[LayerId |-> g.g, Flags |-> 0, Pathp |-> p.p]>>]

\* The body of the loop for one path: the descriptor to append, or the
\* error to return.
LayerDescriptor(path, guidOK) ==
    LET folderName == Split(path)[2]
        g == NameToGuid(folderName, guidOK)
        p == UTF16PtrFromString(path)
    IN  IF g.err # "nil" THEN [err |-> g.err, layer |-> <<>>]
        ELSE IF p.err # "nil" THEN [err |-> p.err, layer |-> <<>>]
        ELSE [err |-> "nil",
              layer |-> <<[LayerId |-> g.g, Flags |-> 0, Pathp |-> p.p]>>]

\* A slice result: nil, or a list of descriptors.
NilLayers == [isNil |-> TRUE, items |-> <<>>]

IdleLayerCall ==
    [pc |-> "idle", paths |-> <<>>,
     i |-> 0,               \* the loop index (from 0, as in the code)
     layers |-> NilLayers,  \* the local slice
     ret |-> NilLayers,     \* the slice returned
     err |-> "nil"]

layerPathsToDescriptors(parentLayerPaths) ==
    /\ layerCall.pc = "idle"
    /\ layerCall' = [IdleLayerCall EXCEPT !.pc = "for", !.paths = parentLayerPaths]
    /\ UNCHANGED <<shareVars, nicVars, serveVars, mountVars>>

\* One iteration of the loop.
LayersIteration(guidOK) ==
    /\ layerCall.pc = "for"
    /\ layerCall.i < Len(layerCall.paths)
    /\ LET r == LayerDescriptor(layerCall.paths[layerCall.i + 1], guidOK)
       IN  layerCall' =
             IF r.err # "nil"
             THEN [layerCall EXCEPT !.pc = "returned", !.ret = NilLayers, !.err = r.err]
             ELSE [layerCall EXCEPT
                      !.layers = [isNil |-> FALSE, items |-> @.items \o r.layer],
                      !.i = @ + 1]
    /\ UNCHANGED <<shareVars, nicVars, serveVars, mountVars>>

\* `return layers, nil` after the loop.
LayersReturn ==
    /\ layerCall.pc = "for"
    /\ layerCall.i >= Len(layerCall.paths)
    /\ layerCall' = [layerCall EXCEPT !.pc = "returned", !.ret = layerCall.layers]
    /\ UNCHANGED <<shareVars, nicVars, serveVars, mountVars>>

\* The caller has the result; the next list may be converted.
LayersDone ==
    /\ layerCall.pc = "returned"
    /\ layerCall' = IdleLayerCall
    /\ UNCHANGED <<shareVars, nicVars, serveVars, mountVars>>

InitLayerVars == layerCall = IdleLayerCall

InitServeVars ==
    /\ pipes = {}
    /\ procAlive = TRUE
    /\ svc = [i \in Servers |-> IdleSvc]

InitNICVars ==
    /\ attachments = {}
    /\ guestNics = {}
    /\ last = NoCall

InitShareVars ==
    /\ vsmbShares = {}
    /\ plan9Shares = {}
    /\ guestMappedDirs = {}
    /\ guestPlan9 = {}
    /\ nextShare = 0
    /\ call = IdleCall

InitShare ==
    /\ InitMountVars
    /\ InitLayerVars
    /\ uvmOS \in {"windows", "linux"}
    /\ InitShareVars
    /\ InitNICVars
    /\ InitServeVars

NextShare ==
    \/ \E hp \in HostPaths, up \in UVMPaths, ro \in BOOLEAN : ShareCall(hp, up, ro)
    \/ \E ok \in BOOLEAN : ShareAddVSMB(ok)
    \/ \E ok \in BOOLEAN : ShareGetVSMBUvmPath(ok)
    \/ \E outcome \in GuestOutcomes : ShareGuestRequest(outcome)
    \/ ShareStat
    \/ \E ok \in BOOLEAN : ShareAddPlan9(ok)
    \/ ShareReturn
    \/ ShareDone

SpecShare == InitShare /\ [][NextShare]_vars

InitNIC ==
    /\ InitMountVars
    /\ InitLayerVars
    /\ uvmOS = "windows"
    /\ InitShareVars
    /\ InitNICVars
    /\ InitServeVars

NextNIC ==
    \/ \E req \in Requests, guestOK \in BOOLEAN, dupFails \in BOOLEAN :
          AddNIC(req, guestOK, dupFails) /\ UNCHANGED <<shareVars, serveVars, mountVars, layerVars>>
    \/ \E req \in Requests, guestOK \in BOOLEAN :
          DeleteNIC(req, guestOK) /\ UNCHANGED <<shareVars, serveVars, mountVars, layerVars>>

SpecNIC == InitNIC /\ [][NextNIC]_vars

InitServe ==
    /\ InitMountVars
    /\ InitLayerVars
    /\ uvmOS = "windows"
    /\ InitShareVars
    /\ InitNICVars
    /\ InitServeVars

NextServe ==
    \/ \E i \in Servers, vm \in VMIDs :
          setupAndServe(i, ComputeAgentAddr(vm)) /\ UNCHANGED <<shareVars, nicVars, mountVars, layerVars>>
    \/ \E i \in Servers, available \in BOOLEAN :
          ServeListenPipe(i, available) /\ UNCHANGED <<shareVars, nicVars, mountVars, layerVars>>
    \/ \E i \in Servers, ok \in BOOLEAN :
          ServeNewServer(i, ok) /\ UNCHANGED <<shareVars, nicVars, mountVars, layerVars>>
    \/ \E i \in Servers : ServeGo(i) /\ UNCHANGED <<shareVars, nicVars, mountVars, layerVars>>
    \/ \E i \in Servers : ServeReturnNil(i) /\ UNCHANGED <<shareVars, nicVars, mountVars, layerVars>>
    \/ \E i \in Servers : CloseListener(i) /\ UNCHANGED <<shareVars, nicVars, mountVars, layerVars>>
    \/ \E i \in Servers, e \in ServeResultsClosed \cup ServeResultsOpen :
          ServeEnds(i, e) /\ UNCHANGED <<shareVars, nicVars, mountVars, layerVars>>

SpecServe == InitServe /\ [][NextServe]_vars

InitMounts ==
    /\ uvmOS = "linux"
    /\ InitShareVars
    /\ InitNICVars
    /\ InitServeVars
    /\ InitMountVars
    /\ InitLayerVars

NextMounts ==
    \/ \E sbid \in SandboxIDs, mounts \in MountLists : updateSandboxMounts(sbid, mounts)
    \/ \E mkdirOK \in BOOLEAN : MountsIteration(mkdirOK)
    \/ MountsReturnNil
    \/ MountsDone

SpecMounts == InitMounts /\ [][NextMounts]_vars

InitLayers ==
    /\ uvmOS = "windows"
    /\ InitShareVars
    /\ InitNICVars
    /\ InitServeVars
    /\ InitMountVars
    /\ InitLayerVars

NextLayers ==
    \/ \E paths \in LayerPathLists : layerPathsToDescriptors(paths)
    \/ \E guidOK \in BOOLEAN : LayersIteration(guidOK)
    \/ LayersReturn
    \/ LayersDone

SpecLayers == InitLayers /\ [][NextLayers]_vars

\* Share calls and AddNIC calls of one UVM. The two operations have no
\* variable in common, so each is explored from the other's initial state.
InitAdd == InitShare

NextAdd ==
    \/ last.op = "none" /\ NextShare
    \/ /\ call.pc = "idle" /\ nextShare = 0
       /\ \E req \in Requests, guestOK \in BOOLEAN, dupFails \in BOOLEAN :
             AddNIC(req, guestOK, dupFails) /\ UNCHANGED <<shareVars, serveVars, mountVars, layerVars>>

SpecAdd == InitAdd /\ [][NextAdd]_vars

\* =================================================================== claims

\* ------------------------------------------------------------------- Share
\* The share object the finished call allocated, if it is still allocated.
CallVSMBShare == {s \in vsmbShares : s.id = call.share}
CallPlan9Share == {s \in plan9Shares : s.id = call.share}

\* The files and directories a Plan9 share lets the guest see.
Visible(s) ==
    {n \in Nodes \ {"root"} :
        /\ NodeParent[n] = Resolve(s.hostPath)
        /\ s.restrictAccess => \E k \in 1..Len(s.allowedNames) : s.allowedNames[k] = <<n>>}

\* C1 -- Rollback invariant: when a Share call on a WindowsGuest UVM has
\* allocated its VSMB share and the guest request then failed (the guest
\* refused it, or the caller's context was cancelled while it was pending),
\* the share allocated by the call is released when Share has returned.
C1_RollbackInvariant ==
    (/\ call.pc = "done"
     /\ uvmOS = "windows"
     /\ call.share # NoShare
     /\ call.outcome \in {"ErrGuest", "ErrCancelled"})
    => (call.err # NoErr /\ CallVSMBShare = {})

C7_SingleFileRestriction ==
    (call.pc \in {"return", "done"} /\ uvmOS = "linux") =>
        \A s \in CallPlan9Share :
            LET n == Resolve(call.reqHostPath)
            IN  IF ~NodeIsDir[n]
                THEN /\ Resolve(s.hostPath) = NodeParent[n]
                     /\ s.restrictAccess
                     /\ s.allowedNames = << <<n>> >>
                     /\ Visible(s) = {n}
                ELSE /\ s.hostPath = call.reqHostPath
                     /\ ~s.restrictAccess
                     /\ s.allowedNames = <<>>

C7_Witness ==
    /\ call.pc = "done" /\ uvmOS = "linux"
    /\ call.reqHostPath = <<SEP, "d", SEP, "f">>
    /\ \E s \in CallPlan9Share : s.restrictAccess /\ "g" \notin Visible(s)

\* ----------------------------------------------------------- compute agent
\* The request's endpoint name resolves to an endpoint.
Resolves(req) == req.EndpointName \in DOMAIN HNSEndpoints

\* The attachment records for a NIC identifier in a namespace.
RecordsFor(set, nsID, nicID) ==
    {a \in set : a.namespaceID = nsID /\ a.nicID = nicID}

\* C3 -- Attach uniqueness: there is never more than one NicAttachment for
\* a (namespaceID, nicID) pair; and when AddNIC is called twice in a row
\* with the same request, the first call succeeding, exactly one record for
\* the request's nicID in the endpoint's namespace exists afterwards and
\* the second call changed neither the attachment set nor the guest.
C3_AttachUniqueness ==
    /\ \A a, b \in attachments :
          (a.namespaceID = b.namespaceID /\ a.nicID = b.nicID) => a = b
    /\ (/\ last.op = "AddNIC" /\ Resolves(last.req)
        /\ last.prev.op = "AddNIC" /\ last.prev.sameReq /\ last.prev.err = NilErr)
       => /\ Cardinality(RecordsFor(attachments,
                 HNSEndpoints[last.req.EndpointName].Namespace.ID, last.req.NicID)) = 1
          /\ attachments = last.before
          /\ guestNics = last.guestBefore

C3_Witness ==
    /\ last.op = "AddNIC" /\ last.prev.op = "AddNIC" /\ last.prev.sameReq
    /\ last.prev.err = NilErr
    /\ last.req = [ContainerID |-> "c1", EndpointName |-> "eth-test", NicID |-> "nic-1"]
    /\ Cardinality(attachments) = 1

\* C4 -- Detach idempotence: a DeleteNIC that repeats a DeleteNIC that
\* succeeded, and more generally a DeleteNIC (for a known endpoint) whose
\* nicID has no attachment, returns no error, and afterwards no
\* NicAttachment record for that nicID exists.
C4_DetachIdempotence ==
    (/\ last.op = "DeleteNIC" /\ Resolves(last.req)
     /\ \/ (last.prev.op = "DeleteNIC" /\ last.prev.sameReq /\ last.prev.err = NilErr)
        \/ \A a \in last.before : a.nicID # last.req.NicID)
    => /\ last.err = NilErr
       /\ \A a \in attachments : a.nicID # last.req.NicID

\* C5 -- End-to-end attach/detach: from an empty attachment set, an AddNIC
\* for an endpoint that resolves, followed at once by a DeleteNIC with the
\* same three arguments, the guest acknowledging both, returns success from
\* both calls and leaves the attachment set empty; and what the DeleteNIC
\* removed is the record carrying the request's nicID.
C5_EndToEnd ==
    (/\ last.op = "DeleteNIC" /\ Resolves(last.req)
     /\ last.prev.op = "AddNIC" /\ last.prev.sameReq /\ last.prev.fromEmpty
     /\ ~last.prev.fault /\ ~last.fault)
    => /\ last.prev.err = NilErr
       /\ last.err = NilErr
       /\ attachments = {}
       /\ last.before \ attachments =
             {NicAttachment(HNSEndpoints[last.req.EndpointName].Namespace.ID,
                            last.req.NicID, HNSEndpoints[last.req.EndpointName])}

C5_Witness ==
    /\ last.op = "DeleteNIC" /\ last.prev.op = "AddNIC" /\ last.prev.sameReq
    /\ last.prev.fromEmpty /\ ~last.prev.fault /\ ~last.fault
    /\ last.req = [ContainerID |-> "c1", EndpointName |-> "eth-test", NicID |-> "nic-1"]
    /\ last.before = {[nicID |-> "nic-1", endpointID |-> "ep-1", namespaceID |-> "ns-1"]}
    /\ attachments = {}

\* C8 -- Resolution failure: an AddNIC or DeleteNIC whose endpoint name does
\* not resolve returns an error, never invokes the guest-facing attach or
\* detach operation, and leaves the attachment set (and the guest) as it was.
C8_ResolutionFailure ==
    (last.op \in {"AddNIC", "DeleteNIC"} /\ ~Resolves(last.req))
    => /\ last.err # NilErr
       /\ last.delegated = 0
       /\ attachments = last.before
       /\ guestNics = last.guestBefore

C8_Witness ==
    /\ last.op = "DeleteNIC" /\ last.req.EndpointName = "eth-x"
    /\ last.req.NicID = "nic-1"
    /\ \E a \in attachments : a.nicID = "nic-1"
    /\ last.err = <<"failed to get endpoint with name", "eth-x", "EndpointNotFound">>

\* C10 -- Request validation: an AddNIC or DeleteNIC request with an empty
\* containerID, endpointName or nicID is rejected with an error before the
\* guest-facing attach or detach operation is invoked.
C10_RequestValidation ==
    (/\ last.op \in {"AddNIC", "DeleteNIC"}
     /\ \/ last.req.ContainerID = ""
        \/ last.req.EndpointName = ""
        \/ last.req.NicID = "")
    => (last.err # NilErr /\ last.delegated = 0)

\* ----------------------------------------------------------- setupAndServe
\* The results of Serve that stand for a closed listener or connection:
\* nil, and the errors whose text contains "use of closed network connection".
ClosedResults == {NilError, ErrClosedPlain, ErrClosedAccept, ErrClosedEmbedded}

\* Serve has returned in instance s.
ServeReturned(s) == s.task = "ended" \/ s.fatal

\* C2 -- Shutdown classification: when Serve returns nil or an error whose
\* text contains "use of closed network connection" the serve loop ends
\* with no fatal error and the process lives on; when it returns any other
\* error a fatal error is reported and the process is terminated; a serve
\* loop that has ended did one or the other.
C2_ShutdownClassification ==
    \A i \in Servers :
        LET s == svc[i]
        IN  /\ ServeReturned(s) =>
                  IF s.served \in ClosedResults
                  THEN s.task = "ended" /\ ~s.fatal
                  ELSE s.fatal /\ ~procAlive /\ s.task = "serving"
            /\ ~procAlive => \E j \in Servers : svc[j].fatal

C2_Witness ==
    \E i, j \in Servers :
        /\ svc[i].task = "ended" /\ svc[i].served = ErrClosedAccept
        /\ svc[j].fatal /\ svc[j].served = ErrEOF

\* The state of a service instance.
SvcState(s) ==
    CASE s.listener = "none" -> "Unbound"
      [] s.listener = "open" /\ s.task = "none" -> "Listening"
      [] s.listener = "open" /\ s.task # "none" -> "Serving"
      [] OTHER -> "Closed"

\* C9 -- Server lifecycle: an instance only steps along
\* Unbound -> Listening -> Serving -> Closed; when the bind fails
\* setupAndServe returns the bind error and no serve task is started; a
\* serve task exists only with an address bound; Closed is entered only
\* from Serving.
C9_LifecycleStep ==
    \A i \in Servers :
        \/ SvcState(svc[i])' = SvcState(svc[i])
        \/ <<SvcState(svc[i]), SvcState(svc[i])'>> \in
              {<<"Unbound", "Listening">>, <<"Listening", "Serving">>,
               <<"Serving", "Closed">>}

C9_LifecycleInv ==
    \A i \in Servers :
        /\ svc[i].ret = "failed to listen" =>
              (svc[i].task = "none" /\ svc[i].listener = "none" /\ svc[i].pc = "returned")
        /\ svc[i].task # "none" => svc[i].listener # "none"
        /\ svc[i].pc = "ListenPipe" => svc[i].listener = "none"

C9_ServerLifecycle == [][C9_LifecycleStep]_vars /\ []C9_LifecycleInv

C9_Witness ==
    \E i, j \in Servers :
        /\ svc[i].ret = "failed to listen"
        /\ SvcState(svc[j]) = "Closed" /\ svc[j].task = "ended"

\* Whether an error carries the endpoint name of the request in front of the
\* error it wraps.
NamesEndpoint(err, name) ==
    /\ Len(err) > 2
    /\ SubSeq(err, 1, 2) = <<"failed to get endpoint with name", name>>

\* C11 -- Error context: every error AddNIC or DeleteNIC returns, from
\* endpoint resolution or from the delegated attach/detach operation, is
\* wrapped with the endpoint name of the request, the underlying error
\* following it, and the delegated operation was invoked at most once.
C11_ErrorContext ==
    (last.op \in {"AddNIC", "DeleteNIC"} /\ last.err # NilErr)
    => /\ NamesEndpoint(last.err, last.req.EndpointName)
       /\ last.delegated <= 1

\* C12 -- No retry of Add: within one Share call the MappedDirectory Add
\* request is sent to the guest at most once, whether the guest
\* acknowledges or fails it; a failed Add is what Share returns to its
\* caller; and one AddNIC call invokes the guest-facing attach at most once.
C12_NoRetryOfAdd ==
    /\ call.guestReqs <= 1
    /\ (call.pc \in {"return", "done"} /\ call.outcome \in {"ErrGuest", "ErrCancelled"})
          => (call.guestReqs = 1 /\ call.err = call.outcome)
    /\ last.op = "AddNIC" => last.delegated <= 1

C12_Witness ==
    /\ call.pc = "done" /\ call.outcome = "ErrGuest"
    /\ call.guestReqs = 1 /\ call.err = "ErrGuest"

\* C13 -- Mechanism selection: the UVM's OS family alone decides the share
\* mechanism, whatever the arguments of the call. On a WindowsGuest a Share
\* call goes to AddVSMB, a share it allocates is a VSMB share, and no Plan9
\* share or Plan9 mount ever exists; on a LinuxGuest a share it allocates is
\* a Plan9 share, no VSMB share ever exists and no MappedDirectory guest
\* request is sent.
C13_MechanismSelection ==
    /\ uvmOS = "windows" =>
          /\ call.pc \in {"idle", "AddVSMB", "GetVSMBUvmPath", "GuestRequest", "return", "done"}
          /\ plan9Shares = {} /\ guestPlan9 = {}
          /\ Cardinality(vsmbShares) + call.releases <= nextShare
          /\ (call.share # NoShare /\ call.releases = 0) => CallVSMBShare # {}
          /\ call.pc = "done" => (call.share # NoShare \/ call.err = "ErrAddVSMB")
    /\ uvmOS = "linux" =>
          /\ call.pc \in {"idle", "Stat", "AddPlan9", "return", "done"}
          /\ vsmbShares = {} /\ guestMappedDirs = {}
          /\ call.guestReqs = 0
          /\ (call.share # NoShare /\ call.releases = 0) => CallPlan9Share # {}

C13_Witness ==
    /\ uvmOS = "linux" /\ call.pc = "done"
    /\ call.readOnly /\ Len(call.reqHostPath) > 1
    /\ CallPlan9Share # {} /\ Cardinality(plan9Shares) = 2

\* C16 -- VSMB path resolution failure: on a WindowsGuest, when AddVSMB has
\* succeeded and GetVSMBUvmPath fails, Share releases the share it has just
\* allocated exactly once, sends no guest request and returns that error;
\* when AddVSMB itself fails, Share returns the error, releases nothing and
\* sends no guest request.
C16_PathResolutionFailure ==
    (uvmOS = "windows" /\ call.pc \in {"return", "done"}) =>
        /\ call.errBlock = "ErrGetVSMBUvmPath" =>
              /\ call.share # NoShare
              /\ call.err = "ErrGetVSMBUvmPath"
              /\ call.guestReqs = 0
              /\ call.releases = (IF call.pc = "done" THEN 1 ELSE 0)
              /\ call.pc = "done" => CallVSMBShare = {}
        /\ call.errBlock = "ErrAddVSMB" =>
              /\ call.share = NoShare
              /\ call.err = "ErrAddVSMB"
              /\ call.guestReqs = 0
              /\ call.releases = 0

C16_Witness ==
    /\ uvmOS = "windows" /\ call.pc = "done"
    /\ call.errBlock = "ErrGetVSMBUvmPath"
    /\ call.share = ShareId(2) /\ call.releases = 1
    /\ Cardinality(vsmbShares) = 1

\* C18 -- Plan9 branch error handling: on a LinuxGuest, Share returns an
\* error exactly when the stat of hostPath fails or AddPlan9 fails, and then
\* no Plan9 share allocated by the call exists; once AddPlan9 has succeeded
\* Share returns nil and does not release the share it allocated.
C18_Plan9ErrorHandling ==
    (uvmOS = "linux" /\ call.pc \in {"return", "done"}) =>
        /\ call.err # NoErr <=>
              (Stat(call.reqHostPath) = NoNode \/ call.errBlock = "ErrAddPlan9")
        /\ call.err # NoErr =>
              /\ call.share = NoShare
              /\ CallPlan9Share = {}
              /\ call.releases = 0
        /\ call.share # NoShare =>
              /\ call.err = NoErr
              /\ call.releases = 0
              /\ CallPlan9Share # {}

C18_Witness ==
    /\ uvmOS = "linux" /\ call.pc = "done"
    /\ call.share = ShareId(2) /\ call.err = NoErr
    /\ Cardinality(plan9Shares) = 2

\* C17 -- No listener leak at startup: whenever setupAndServe has returned
\* an error to its caller, no listener bound by that call is open; and
\* whenever the serve loop has ended in a clean shutdown, the listener is
\* closed.
C17_NoListenerLeak ==
    \A i \in Servers :
        /\ (svc[i].pc = "returned" /\ svc[i].ret # NoErr) => svc[i].listener # "open"
        /\ svc[i].task = "ended" => svc[i].listener = "closed"

\* What setupAndServe has handed to its caller stays what it is.
C19_ReturnStep ==
    \A i \in Servers : svc[i].ret # "pending" => svc'[i].ret = svc[i].ret

C19_ReturnInv ==
    \A i \in Servers :
        /\ (svc[i].pc = "return" /\ procAlive) => ENABLED ServeReturnNil(i)
        /\ svc[i].task # "none" =>
              /\ svc[i].ret \in {"pending", NoErr}
              /\ svc[i].pc = "returned" => svc[i].ret = NoErr
        /\ svc[i].fatal => ~procAlive

\* C19 -- Server independence: once the address is bound and the server
\* constructed, the serve loop runs on its own task and setupAndServe
\* returns nil without waiting for it: while the process lives the return
\* is possible whatever the serve task is doing, the value returned is nil
\* and stays nil when the serve loop ends later, and a serve failure is
\* seen only as the termination of the process.
C19_ServerIndependence == [][C19_ReturnStep]_vars /\ []C19_ReturnInv

C19_Witness ==
    \E i, j \in Servers :
        /\ svc[i].pc = "returned" /\ svc[i].ret = NoErr /\ svc[i].fatal
        /\ svc[j].pc = "returned" /\ svc[j].ret = NoErr /\ svc[j].task = "ended"

\* A clean path that is the directory or lies below it.
Within(path, dir) ==
    LET pe == Elements(path)
        de == Elements(dir)
    IN  Len(pe) >= Len(de) /\ SubSeq(pe, 1, Len(de)) = de

HasScheme(source) == HasPrefix(source, sandboxMountPrefix)

\* C14 -- Sandbox mount confinement: for every mount whose source starts
\* with "sandbox://", updateSandboxMounts either rewrites the source to a
\* path inside the sandbox's mounts directory (the directory or a
\* descendant) or returns an error, whatever the sub-path, ".." elements
\* included; mounts without the scheme keep their source.
C14_MountConfinement ==
    sandbox.pc # "idle" =>
        \A k \in 1..Len(sandbox.given) :
            IF HasScheme(sandbox.given[k])
            THEN /\ (/\ sandbox.mounts[k] # sandbox.given[k]
                     /\ ~(sandbox.err # NoMountErr /\ sandbox.i = k)) =>
                       Within(sandbox.mounts[k], getSandboxMountsDir(sandbox.sbid))
                 /\ (sandbox.pc = "returned" /\ sandbox.err = NoMountErr) =>
                       sandbox.mounts[k] # sandbox.given[k]
            ELSE sandbox.mounts[k] = sandbox.given[k]

\* C20 -- All-or-nothing: when updateSandboxMounts has returned an error,
\* for a path that was rejected or a directory that could not be created,
\* no mount source has been rewritten: the mount list is the one it was
\* given.
C20_AllOrNothing ==
    (sandbox.pc = "returned" /\ sandbox.err # NoMountErr) => sandbox.mounts = sandbox.given

\* C15 -- Layer descriptor conversion: when layerPathsToDescriptors returns
\* no error for n paths it returns n descriptors in input order, the i-th
\* with the identity of the final component of the i-th path (equal final
\* components give equal identities), flags 0 and the i-th path; when a
\* conversion fails, as it must for a path with a NUL in it, it returns an
\* error and a nil list, never part of a list.
C15_LayerDescriptors ==
    layerCall.pc = "returned" =>
        /\ layerCall.err = "nil" =>
              /\ Len(layerCall.ret.items) = Len(layerCall.paths)
              /\ \A k \in 1..Len(layerCall.paths) :
                    /\ layerCall.ret.items[k].LayerId =
                          NameToGuid(Split(layerCall.paths[k])[2], TRUE).g
                    /\ layerCall.ret.items[k].Flags = 0
                    /\ layerCall.ret.items[k].Pathp = UTF16PtrFromString(layerCall.paths[k]).p
              /\ \A j, k \in 1..Len(layerCall.paths) :
                    Split(layerCall.paths[j])[2] = Split(layerCall.paths[k])[2] =>
                       layerCall.ret.items[j].LayerId = layerCall.ret.items[k].LayerId
        /\ layerCall.err # "nil" => layerCall.ret = NilLayers
        /\ (\E k \in 1..Len(layerCall.paths) :
               UTF16PtrFromString(layerCall.paths[k]).err # "nil") => layerCall.err # "nil"

C15_Witness ==
    /\ layerCall.pc = "returned" /\ layerCall.err = "nil"
    /\ layerCall.paths = << <<"C:", SEP, "l", SEP, "a">>, <<"C:", SEP, "l", SEP, "b">>,
                            <<"C:", SEP, "k", SEP, "a">> >>
    /\ Len(layerCall.ret.items) = 3
    /\ layerCall.ret.items[1].LayerId = layerCall.ret.items[3].LayerId
    /\ layerCall.ret.items[1].LayerId # layerCall.ret.items[2].LayerId


====
